---- MODULE Spec2Model ----
(***************************************************************************)
(* A model of the queue-mediated gateway of node-server-template:          *)
(*   - the worker-side router built by the binding directives of           *)
(*     src/src/decorator.ts (Guard, Path, Queue);                          *)
(*   - the master-side Dispatcher of src/src/index.ts (masterMain), the    *)
(*     broker contract it relies on and the Worker Job Processor           *)
(*     (workerMain).                                                       *)
(* URLs are sequences of tokens ("/" and path segments); a status code of  *)
(* NoCode stands for an error object that has no statusCode property.      *)
(***************************************************************************)
EXTENDS Integers, Sequences, FiniteSets, TLC

\* ------------------------------------------------------------------ bounds
MaxBindings == 2      \* Path directives applied while a module loads
MaxGuards == 2        \* predicates in one Guard directive
MaxReq == 2           \* Dispatcher requests in one run
MaxEntries == 2       \* Mapping Entries in a drawn mapping table

\* -------------------------------------------------------------- constants
NoCode == 0
OK == 200
FORBIDDEN == 403
NOT_FOUND == 404
INTERNAL_SERVER_ERROR == 500
GATEWAY_TIMEOUT == 504

\* ------------------------------------------------------------------- URLs
\* str.toLocaleUpperCase() on the method names the model uses.
ToUpper(s) ==
  CASE s = "get" -> "GET"
    [] s = "post" -> "POST"
    [] s = "all" -> "ALL"
    [] s = "health" -> "HEALTH"
    [] OTHER -> s

RECURSIVE StripTrailing(_)
StripTrailing(u) ==
  IF Len(u) > 0 /\ u[Len(u)] = "/"
  THEN StripTrailing(SubSeq(u, 1, Len(u) - 1))
  ELSE u

\* fixUrl: a leading "/" is enforced, trailing "/"s are stripped.
FixUrl(u) ==
  StripTrailing(IF Len(u) > 0 /\ u[1] = "/" THEN u ELSE <<"/">> \o u)

IsParam(p) == p \in {":id"}

SegMatch(p, s) == p = s \/ (IsParam(p) /\ s # "/")

\* match(pattern, path) of node-match-path: an object {matches, params}.
MatchPath(pattern, path) ==
  [matches |-> \/ pattern = <<"*">>
               \/ /\ Len(pattern) = Len(path)
                  /\ \A i \in 1..Len(pattern) : SegMatch(pattern[i], path[i])]

\* !!v for an object v: every object is truthy.
TruthyObject(o) == TRUE

\* ---------------------------------------------------- worker-side router
ClassNames == {"UsersModule", "EmptyModule"}
PredNames == {"isAuthenticated", "isAdmin"}
CheckNames == {"isUsers", "never"}
Users == {"none", "user", "admin"}
WorkerMethods == {"GET", "POST", "HEALTH"}
WorkerUrls == {<<"users", "/">>, <<>>}

\* A guard predicate (CheckData) applied to a request.
Pred(f, data) ==
  CASE f = "isAuthenticated" -> data.user # "none"
    [] f = "isAdmin" -> data.user = "admin"

\* A custom matcher (CheckData) handed to Path.
CustomCheck(name, data) ==
  CASE name = "isUsers" -> data.url = <<"/", "users">>
    [] name = "never" -> FALSE
    [] name = "isHealth" -> data.method = "HEALTH"

\* The matcher Path stores: for a string url the closure of line 50,
\* otherwise the predicate itself.
CheckUrl(m, data) ==
  IF m.kind = "string"
  THEN TruthyObject(MatchPath(FixUrl(m.url), FixUrl(data.url)))
  ELSE CustomCheck(m.name, data)

\* One step of guardFuncs.reduce((r, f) => r && f(data), true).
AndThenEager(acc, f, data) ==
  [r |-> Pred(f, data) /\ acc.r, invoked |-> Append(acc.invoked, f)]

AndThen(acc, f, data) ==
  IF acc.r
  THEN [r |-> Pred(f, data), invoked |-> Append(acc.invoked, f)]
  ELSE acc

RECURSIVE Reduce(_, _, _, _)
Reduce(fs, data, i, acc) ==
  IF i > Len(fs) THEN acc
  ELSE Reduce(fs, data, i + 1, AndThen(acc, fs[i], data))

GuardReduce(fs, data) == Reduce(fs, data, 1, [r |-> TRUE, invoked |-> <<>>])

NoResult == "-"

\* What a call of a PathFunction yields: its promise fulfilled (kind "ok")
\* or rejected (kind "error"), the guard predicates it invoked in order and
\* whether the handler body ran.
Rejected(code, msg, invoked, ran) ==
  [kind |-> "error", statusCode |-> code, message |-> msg, result |-> NoResult,
   cache |-> FALSE, invoked |-> invoked, bodyRan |-> ran]

Body(h, invoked) ==
  IF h.kind = "ok"
  THEN [kind |-> "ok", statusCode |-> h.statusCode, message |-> "",
        result |-> h.result, cache |-> h.cache, invoked |-> invoked,
        bodyRan |-> TRUE]
  ELSE Rejected(h.statusCode, h.message, invoked, TRUE)

\* descriptor.value after Guard(...guardFuncs): h is what the wrapped
\* handler body does when it runs.
Guarded(fs, data, h) ==
  LET g == GuardReduce(fs, data)
  IN  IF ~g.r THEN Rejected(FORBIDDEN, "Forbidden", g.invoked, FALSE)
      ELSE Body(h, g.invoked)

\* paths[name][METHOD] with a bin added: a record extended by one key.
Extend(f, k, v) == [x \in DOMAIN f \cup {k} |-> IF x = k THEN v ELSE f[x]]

\* Array.prototype.find over a bin: the index of the first entry whose
\* matcher accepts d, 0 for undefined.
RECURSIVE FindFrom(_, _, _)
FindFrom(bin, d, i) ==
  IF i > Len(bin) THEN 0
  ELSE IF CheckUrl(bin[i].check, d) THEN i
  ELSE FindFrom(bin, d, i + 1)

ArrayFind(bin, d) == FindFrom(bin, d, 1)

\* find(data) of the class Queue returns. Reading a property of
\* paths[constructor.name] when no Path directive ever created it throws a
\* TypeError; a missing method bin is created empty.
Find(p, cls, data) ==
  IF cls \notin DOMAIN p
  THEN [threw |-> TRUE, paths |-> p, idx |-> 0]
  ELSE LET p1 == IF data.method \in DOMAIN p[cls] THEN p
                 ELSE [p EXCEPT ![cls] = Extend(p[cls], data.method, <<>>)]
       IN  [threw |-> FALSE, paths |-> p1,
            idx |-> ArrayFind(p1[cls][data.method],
                              [data EXCEPT !.url = FixUrl(data.url)])]

\* target[1].apply(this, [data]): the stored function, Guard-wrapped or not.
Call(func, data, h) ==
  IF func.guards = <<>> THEN Body(h, <<>>) ELSE Guarded(func.guards, data, h)

NoRun(p, out) == [paths |-> p, out |-> out, bin |-> "", idx |-> 0, fs |-> <<>>]

\* run(data) of the class Queue returns.
Run(p, cls, data, h) ==
  LET f1 == Find(p, cls, data)
  IN  IF f1.threw
      THEN NoRun(p, Rejected(NoCode, "TypeError", <<>>, FALSE))
      ELSE IF f1.idx # 0
      THEN LET e == f1.paths[cls][data.method][f1.idx]
           IN  [paths |-> f1.paths, out |-> Call(e.func, data, h),
                bin |-> data.method, idx |-> f1.idx, fs |-> e.func.guards]
      ELSE LET f2 == Find(f1.paths, cls, [data EXCEPT !.method = "ALL"])
           IN  IF f2.idx # 0
               THEN LET e == f2.paths[cls]["ALL"][f2.idx]
                    IN  [paths |-> f2.paths, out |-> Call(e.func, data, h),
                         bin |-> "ALL", idx |-> f2.idx, fs |-> e.func.guards]
               ELSE NoRun(f2.paths,
                          Rejected(NOT_FOUND, "Not Found", <<>>, FALSE))

\* The Path directive's registration: the bin of the uppercased method is
\* created when missing and [matcher, descriptor.value] is pushed.
Register(p, cls, method, m, func) ==
  LET METHOD == ToUpper(method)
      p1 == IF cls \in DOMAIN p THEN p ELSE Extend(p, cls, <<>>)
      c1 == IF METHOD \in DOMAIN p1[cls] THEN p1[cls]
            ELSE Extend(p1[cls], METHOD, <<>>)
  IN  [p1 EXCEPT ![cls] =
         [c1 EXCEPT ![METHOD] = Append(@, [check |-> m, func |-> func])]]

\* ------------------------------------------------ inputs of the router
Matchers ==
  {[kind |-> "string", url |-> <<"/", "orders">>, name |-> ""],
   [kind |-> "custom", url |-> <<>>, name |-> "isUsers"],
   [kind |-> "custom", url |-> <<>>, name |-> "never"]}

GuardLists == UNION {[1..n -> PredNames] : n \in 0..MaxGuards}

Funcs ==
  {[body |-> "list", guards |-> <<>>],
   [body |-> "get", guards |-> <<"isAuthenticated">>]}

DirectiveMethods == {"get", "ALL"}

WorkerData == [method : WorkerMethods, url : WorkerUrls, user : Users]

HandlerOutcomes ==
  {[kind |-> "ok", statusCode |-> OK, result |-> "r1", cache |-> FALSE,
    message |-> ""],
   [kind |-> "ok", statusCode |-> 201, result |-> "r2", cache |-> TRUE,
    message |-> ""],
   [kind |-> "throw", statusCode |-> 409, result |-> NoResult,
    cache |-> FALSE, message |-> "Conflict"],
   [kind |-> "throw", statusCode |-> NoCode, result |-> NoResult,
    cache |-> FALSE, message |-> "boom"]}

\* ------------------------------------------------------------------ state
VARIABLES
  paths,      \* decorator.ts: paths[class name][METHOD] = bin of entries
  phase,      \* worker process: "load" while modules load, then "serve"
  last,       \* the most recent call of run() or of a guarded function
  mapper,     \* index.ts: the Mapping Entries, in declaration order
  reqs,       \* the Dispatcher's requests: one handler invocation each
  jobs,       \* the broker's jobs; a job's id is its index
  signals,    \* completion events published and not yet delivered
  listeners,  \* listeners registered on the queue handles, keyed by job id
  timers,     \* requests whose wait has a running timer
  health,     \* index.ts: one invocation of the handler of GET /health
  tx,         \* utils.ts: the storage layer's transactions and scopes
  registry,   \* interface.ts: the process-wide Dependencies instance
  boot,       \* index.ts: workerMain's position and what it has started
  callback,   \* index.ts: one invocation of a queue's process callback
  launch,     \* index.ts: main's configuration and what each process ran
  descriptors \* decorator.ts: descriptor.value of each decorated method

routeVars == <<paths, phase, last>>

gatewayVars == <<mapper, reqs, jobs, signals, listeners, timers>>

auxVars == <<health, tx, registry, boot, callback, launch, descriptors>>

vars ==
  <<paths, phase, last, mapper, reqs, jobs, signals, listeners, timers,
    health, tx, registry, boot, callback, launch, descriptors>>

\* The parts of the process a specification does not exercise.
NoHealth == [pc |-> "off"]

NoTx == [pc |-> "off"]

NoRegistry == [pc |-> "off"]

NoBoot == [pc |-> "off"]

NoCallback == [pc |-> "off"]

NoLaunch == [pc |-> "off"]

NoDescriptors == <<>>

restVars == <<callback, launch, descriptors>>

NoAux ==
  /\ health = NoHealth
  /\ tx = NoTx
  /\ registry = NoRegistry
  /\ boot = NoBoot
  /\ callback = NoCallback
  /\ launch = NoLaunch
  /\ descriptors = NoDescriptors

NoCall ==
  [op |-> "none", cls |-> "", data |-> [method |-> "", url |-> <<>>, user |-> "none"],
   h |-> [kind |-> "", statusCode |-> NoCode, result |-> NoResult,
          cache |-> FALSE, message |-> ""],
   fs |-> <<>>, out |-> Rejected(NoCode, "", <<>>, FALSE), bin |-> "",
   idx |-> 0]

Bindings(p) ==
  LET RECURSIVE Sum(_)
      Sum(S) == IF S = {} THEN 0
                ELSE LET x == CHOOSE y \in S : TRUE
                     IN  Len(p[x[1]][x[2]]) + Sum(S \ {x})
  IN  Sum({<<c, m>> \in ClassNames \X {"GET", "ALL"} :
             c \in DOMAIN p /\ m \in DOMAIN p[c]})

\* A process that runs no Dispatcher: no mapping table, no request.
NoGateway ==
  /\ mapper = <<>>
  /\ reqs = <<>>
  /\ jobs = <<>>
  /\ signals = {}
  /\ listeners = {}
  /\ timers = {}
  /\ NoAux

InitRoute ==
  /\ paths = <<>>
  /\ phase = "load"
  /\ last = NoCall
  /\ NoGateway

\* A Path(method, url) directive is applied to a method of UsersModule. The
\* function it stores is descriptor.value as it is at that moment.
LoadPath(method, m, func) ==
  /\ phase = "load"
  /\ Bindings(paths) < MaxBindings
  /\ paths' = Register(paths, "UsersModule", method, m, func)
  /\ UNCHANGED <<phase, last>>
  /\ UNCHANGED gatewayVars
  /\ UNCHANGED auxVars

\* Every module of the worker is imported: bootstrap is over.
Bootstrapped ==
  /\ phase = "load"
  /\ phase' = "serve"
  /\ UNCHANGED <<paths, last>>
  /\ UNCHANGED gatewayVars
  /\ UNCHANGED auxVars

\* queueInst.run(job.data) for an instance of class cls; h is what the
\* handler body does if it runs.
RunCall(cls, data, h) ==
  /\ phase = "serve"
  /\ LET r == Run(paths, cls, data, h)
     IN  /\ paths' = r.paths
         /\ last' = [op |-> "run", cls |-> cls, data |-> data, h |-> h,
                     fs |-> r.fs, out |-> r.out, bin |-> r.bin,
                     idx |-> r.idx]
  /\ UNCHANGED phase
  /\ UNCHANGED gatewayVars
  /\ UNCHANGED auxVars

RouteData == {d \in WorkerData : d.user # "admin"}

RouteOutcomes == {h \in HandlerOutcomes : h.statusCode \in {OK, NoCode}}

NextRoute ==
  \/ \E method \in DirectiveMethods, m \in Matchers, func \in Funcs :
       LoadPath(method, m, func)
  \/ Bootstrapped
  \/ \E cls \in ClassNames, data \in RouteData, h \in RouteOutcomes :
       RunCall(cls, data, h)

SpecRoute == InitRoute /\ [][NextRoute]_vars

\* --------------------------------------------- a guarded function, called
\* The arguments of one call of a function wrapped by Guard(...fs).
InitGuard ==
  /\ paths = <<>>
  /\ phase = "serve"
  /\ NoGateway
  /\ \E fs \in GuardLists, data \in WorkerData, h \in HandlerOutcomes :
       last = [NoCall EXCEPT !.op = "args", !.fs = fs, !.data = data, !.h = h]

\* descriptor.value(data) of a method decorated with Guard(...fs).
GuardCall ==
  /\ last.op = "args"
  /\ last' = [last EXCEPT !.op = "guard",
                          !.out = Guarded(last.fs, last.data, last.h)]
  /\ UNCHANGED <<paths, phase>>
  /\ UNCHANGED gatewayVars
  /\ UNCHANGED auxVars

SpecGuard == InitGuard /\ [][GuardCall]_vars

\* ------------------------------------------------------------ Dispatcher
Queues == {"users", "orders"}
ReqIds == 1..MaxReq
ReqMethods == {"GET", "POST"}
ReqUrls == {<<"/", "users">>, <<"/", "orders">>}

\* The scan of the Mapping Entries (for ... of mapper): the index of the
\* entry the handler continues with, 0 when the loop ends without one.
RECURSIVE ScanLast(_, _, _, _)
ScanLast(mp, REQ_METHOD, pathname, i) ==
  IF i < 1 THEN 0
  ELSE IF /\ (REQ_METHOD = ToUpper(mp[i].method) \/ "ALL" = ToUpper(mp[i].method))
          /\ MatchPath(mp[i].path, pathname).matches
  THEN i
  ELSE ScanLast(mp, REQ_METHOD, pathname, i - 1)

RECURSIVE ScanFrom(_, _, _, _)
ScanFrom(mp, REQ_METHOD, pathname, i) ==
  IF i > Len(mp) THEN 0
  ELSE LET MAP_METHOD == ToUpper(mp[i].method)
       IN  IF /\ (REQ_METHOD = MAP_METHOD \/ "ALL" = MAP_METHOD)
              /\ MatchPath(mp[i].path, pathname).matches
           THEN i
           ELSE ScanFrom(mp, REQ_METHOD, pathname, i + 1)

SelectEntryLast(mp, method, url) == ScanLast(mp, ToUpper(method), url, Len(mp))

SelectEntry(mp, method, url) == ScanFrom(mp, ToUpper(method), url, 1)

\* A signalled failure: an error object, statusCode NoCode when it has none.
Failure(code, msg) == [statusCode |-> code, message |-> msg]

NoResp ==
  [kind |-> "none", statusCode |-> NoCode, result |-> NoResult,
   message |-> "", cache |-> FALSE, elapsed |-> FALSE]

\* The catch block of the handler.
ErrorEnvelopeNoDefault(e) ==
  [kind |-> "error", statusCode |-> e.statusCode, result |-> NoResult,
   message |-> e.message, cache |-> FALSE, elapsed |-> TRUE]

ErrorEnvelopeAlways500(e) ==
  [kind |-> "error", statusCode |-> INTERNAL_SERVER_ERROR, result |-> NoResult,
   message |-> e.message, cache |-> FALSE, elapsed |-> TRUE]

ErrorEnvelope(e) ==
  [kind |-> "error",
   statusCode |-> IF e.statusCode # NoCode THEN e.statusCode
                  ELSE INTERNAL_SERVER_ERROR,
   result |-> NoResult, message |-> e.message, cache |-> FALSE,
   elapsed |-> TRUE]

\* The handler's return value: {...result, elapsed} once result.cache is
\* translated into headers and deleted.
ResultEnvelopeOK(result) ==
  [kind |-> "result", statusCode |-> OK, result |-> result.result,
   message |-> "", cache |-> FALSE, elapsed |-> TRUE]

ResultEnvelope(result) ==
  [kind |-> "result", statusCode |-> result.statusCode,
   result |-> result.result, message |-> "", cache |-> FALSE,
   elapsed |-> TRUE]

\* -------------------------------------------------- Worker Job Processor
KnownCodes == {FORBIDDEN, NOT_FOUND, 409}

\* The argument(s) of done(): (null, result) when run() fulfilled,
\* new Error(e.statusCode) or e itself when it rejected. The broker carries
\* an error by its message.
WorkerReportUnchanged(out) ==
  IF out.kind = "ok"
  THEN [kind |-> "succeeded", statusCode |-> out.statusCode,
        result |-> out.result, cache |-> out.cache, message |-> ""]
  ELSE [kind |-> "failed", statusCode |-> NoCode, result |-> NoResult,
        cache |-> FALSE, message |-> out.message]

WorkerReport(out) ==
  IF out.kind = "ok"
  THEN [kind |-> "succeeded", statusCode |-> out.statusCode,
        result |-> out.result, cache |-> out.cache, message |-> ""]
  ELSE [kind |-> "failed", statusCode |-> NoCode, result |-> NoResult,
        cache |-> FALSE,
        message |-> IF out.statusCode # NoCode THEN ToString(out.statusCode)
                    ELSE out.message]

NoReport ==
  [kind |-> "", statusCode |-> NoCode, result |-> NoResult, cache |-> FALSE,
   message |-> ""]

\* The class whose instance serves a queue (config.modules).
ModuleOf(q) == IF q = "users" THEN "UsersModule" ELSE "OrdersModule"

\* ----------------------------------------------- Wait-With-Timeout
\* The status code a failure report carries, NoCode when it carries none.
ParseCode(m) ==
  IF \E c \in KnownCodes : ToString(c) = m
  THEN CHOOSE c \in KnownCodes : ToString(c) = m
  ELSE NoCode

\* The failure the wait signals for a failure report.
WaitFailure(rep) == Failure(ParseCode(rep.message), rep.message)

GatewayTimeout == Failure(GATEWAY_TIMEOUT, "Gateway Timeout")

\* The two listeners a wait registers, keyed by the job id.
WaitListeners(r, j) ==
  {[req |-> r, job |-> j, ev |-> "succeeded"],
   [req |-> r, job |-> j, ev |-> "failed"]}

\* What is left registered once the waits of the requests R resolved on a
\* completion signal.
OnSignalListeners(L, R) == {l \in L : l.req \notin R}

OnSignalTimersKept(T, R) == T

OnSignalTimers(T, R) == T \ R

\* What is left registered once the timer of request r fired.
OnTimeoutListenersKept(L, r) == L

OnTimeoutListenersHalf(L, r) == {l \in L : l.req # r \/ l.ev = "succeeded"}

OnTimeoutListeners(L, r) == {l \in L : l.req # r}

\* ------------------------------------------------- the handler's steps
NoData == [method |-> "", url |-> <<>>, user |-> "none"]

NoFail == [step |-> "none", statusCode |-> NoCode]

NoWait == [settles |-> 0, outcome |-> "none", by |-> 0]

\* One invocation of the handler of app.all('*'): pc is the await it is
\* suspended at ("pre", "saving", "waiting", "post"), "done" once it
\* returned its response.
IdleReq ==
  [pc |-> "idle", method |-> "", url |-> <<>>, entry |-> 0, data |-> NoData,
   job |-> 0, held |-> NoReport, resp |-> NoResp, fail |-> NoFail,
   wait |-> NoWait, postOut |-> "none"]

\* A failure signalled at a step reaches the catch block.
Throw(rec, step, e) ==
  [rec EXCEPT !.pc = "done", !.resp = ErrorEnvelope(e),
              !.fail = [step |-> step, statusCode |-> e.statusCode],
              !.data = NoData, !.held = NoReport]

\* The handler returns the result with elapsed attached.
Return(rec, result) ==
  [rec EXCEPT !.pc = "done", !.resp = ResultEnvelope(result),
              !.data = NoData, !.held = NoReport]

\* The job handed to wait(): the one save() returned to this invocation.
AwaitedJobStale(saved) == IF saved > 1 THEN saved - 1 ELSE saved

AwaitedJob(saved) == saved

\* The promise of wait() is settled by a listener or by the timer. Only the
\* first settlement resumes the handler; the count of settlements is kept.
Settle(rec, post, outcome, j, rep) ==
  IF rec.wait.settles > 0
  THEN [rec EXCEPT !.wait.settles = 2]
  ELSE LET w == [rec EXCEPT !.wait = [settles |-> 1, outcome |-> outcome,
                                      by |-> j]]
       IN  CASE outcome = "success" ->
                  IF post THEN [w EXCEPT !.pc = "post", !.held = rep]
                  ELSE Return(w, rep)
             [] outcome = "failure" -> Throw(w, "wait", WaitFailure(rep))
             [] outcome = "timeout" -> Throw(w, "wait", GatewayTimeout)

PreOutcomes ==
  {[kind |-> "ok", user |-> "none", statusCode |-> NoCode, message |-> ""],
   [kind |-> "ok", user |-> "user", statusCode |-> NoCode, message |-> ""],
   [kind |-> "throw", user |-> "none", statusCode |-> 400,
    message |-> "Bad Request"],
   [kind |-> "throw", user |-> "none", statusCode |-> NoCode,
    message |-> "pre failed"]}

PostOutcomes ==
  {[kind |-> "ok", statusCode |-> NoCode, message |-> ""],
   [kind |-> "mutate", statusCode |-> NoCode, message |-> ""],
   [kind |-> "throw", statusCode |-> 502, message |-> "Bad Gateway"],
   [kind |-> "throw", statusCode |-> NoCode, message |-> "post failed"]}

\* A request reaches the handler: the mapping table is scanned; without a
\* match NotFound is thrown, otherwise the pre hook is awaited or, when the
\* entry has none, createJob(data).save() is.
Request(r, method, url) ==
  /\ reqs[r].pc = "idle"
  /\ IF r = 1 THEN TRUE ELSE reqs[r - 1].pc # "idle"
  /\ LET i == SelectEntry(mapper, method, url)
         rec == [reqs[r] EXCEPT !.method = method, !.url = url, !.entry = i]
     IN  reqs' = [reqs EXCEPT ![r] =
           IF i = 0
           THEN Throw(rec, "match", Failure(NOT_FOUND, "Not Found"))
           ELSE [rec EXCEPT !.data = [method |-> ToUpper(method),
                                      url |-> url, user |-> "none"],
                            !.pc = IF mapper[i].pre THEN "pre" ELSE "saving"]]
  /\ UNCHANGED <<mapper, jobs, signals, listeners, timers>>
  /\ UNCHANGED routeVars
  /\ UNCHANGED auxVars

\* await pre(request, data) settles: the hook returned (it may have put the
\* authenticated user into data) or threw.
PreReturn(r, o) ==
  /\ reqs[r].pc = "pre"
  /\ reqs' = [reqs EXCEPT ![r] =
       IF o.kind = "ok"
       THEN [@ EXCEPT !.data.user = o.user, !.pc = "saving"]
       ELSE Throw(@, "pre", Failure(o.statusCode, o.message))]
  /\ UNCHANGED <<mapper, jobs, signals, listeners, timers>>
  /\ UNCHANGED routeVars
  /\ UNCHANGED auxVars

\* await queue.createJob(data).save() settles. On success the broker holds
\* the job under a new id and wait() registers its two listeners and starts
\* its timer; on failure the rejection reaches the catch block.
SaveDone(r, ok) ==
  /\ reqs[r].pc = "saving"
  /\ IF ok
     THEN LET id == Len(jobs) + 1
              key == AwaitedJob(id)
          IN  /\ jobs' = Append(jobs,
                   [queue |-> mapper[reqs[r].entry].queue,
                    data |-> reqs[r].data, owner |-> r, state |-> "waiting",
                    report |-> NoReport, thrown |-> Failure(NoCode, "")])
              /\ listeners' = listeners \cup WaitListeners(r, key)
              /\ timers' = timers \cup {r}
              /\ reqs' = [reqs EXCEPT ![r] =
                   [@ EXCEPT !.pc = "waiting", !.job = id, !.data = NoData]]
     ELSE /\ reqs' = [reqs EXCEPT ![r] =
                   Throw(@, "submit", Failure(NoCode, "save failed"))]
          /\ UNCHANGED <<jobs, listeners, timers>>
  /\ UNCHANGED <<mapper, signals>>
  /\ UNCHANGED routeVars
  /\ UNCHANGED auxVars

\* The processor of the job's queue receives job j: run(job.data) settles
\* and done() reports to the broker, which publishes the completion event.
WorkerProcess(j, h) ==
  /\ phase = "serve"
  /\ jobs[j].state = "waiting"
  /\ LET r == Run(paths, ModuleOf(jobs[j].queue), jobs[j].data, h)
         rep == WorkerReport(r.out)
     IN  /\ jobs' = [jobs EXCEPT ![j] =
               [@ EXCEPT !.state = rep.kind, !.report = rep,
                         !.thrown = IF r.out.kind = "ok" THEN Failure(NoCode, "")
                                    ELSE Failure(r.out.statusCode,
                                                 r.out.message)]]
         /\ paths' = r.paths
  /\ signals' = signals \cup {j}
  /\ UNCHANGED <<mapper, reqs, listeners, timers, phase, last>>
  /\ UNCHANGED auxVars

\* The completion event of job j reaches the Dispatcher's process: the
\* listeners keyed by j fire, each detaching both listeners of its wait and
\* clearing its timer before it settles the wait. Without such a listener
\* the event is dropped.
Deliver(j) ==
  /\ j \in signals
  /\ signals' = signals \ {j}
  /\ LET rep == jobs[j].report
         R == {l.req : l \in {x \in listeners :
                                x.job = j /\ x.ev = rep.kind}}
         outcome == IF rep.kind = "succeeded" THEN "success" ELSE "failure"
     IN  /\ listeners' = OnSignalListeners(listeners, R)
         /\ timers' = OnSignalTimers(timers, R)
         /\ reqs' = [r \in ReqIds |->
              IF r \in R
              THEN Settle(reqs[r], mapper[reqs[r].entry].post, outcome, j, rep)
              ELSE reqs[r]]
  /\ UNCHANGED <<mapper, jobs>>
  /\ UNCHANGED routeVars
  /\ UNCHANGED auxVars

\* The timer of the wait of request r fires: the listeners are detached
\* and the wait signals Gateway Timeout.
Timeout(r) ==
  /\ r \in timers
  /\ timers' = timers \ {r}
  /\ listeners' = OnTimeoutListeners(listeners, r)
  /\ reqs' = [reqs EXCEPT ![r] =
       Settle(@, mapper[@.entry].post, "timeout", 0, NoReport)]
  /\ UNCHANGED <<mapper, jobs, signals>>
  /\ UNCHANGED routeVars
  /\ UNCHANGED auxVars

\* await post(request, reply, result) settles: the hook returned, having
\* left the result as it was or rewritten it, or threw.
PostReturn(r, o) ==
  /\ reqs[r].pc = "post"
  /\ reqs' = [reqs EXCEPT ![r] =
       CASE o.kind = "ok" -> Return([@ EXCEPT !.postOut = "ok"], @.held)
         [] o.kind = "mutate" ->
              Return([@ EXCEPT !.postOut = "mutate"],
                     [@.held EXCEPT !.result = "rewritten"])
         [] o.kind = "throw" ->
              Throw([@ EXCEPT !.postOut = "throw"], "post",
                    Failure(o.statusCode, o.message))]
  /\ UNCHANGED <<mapper, jobs, signals, listeners, timers>>
  /\ UNCHANGED routeVars
  /\ UNCHANGED auxVars

Next ==
  \/ \E r \in ReqIds, method \in ReqMethods, url \in ReqUrls :
       Request(r, method, url)
  \/ \E r \in ReqIds, o \in PreOutcomes : PreReturn(r, o)
  \/ \E r \in ReqIds, ok \in BOOLEAN : SaveDone(r, ok)
  \/ \E j \in 1..Len(jobs), h \in HandlerOutcomes : WorkerProcess(j, h)
  \/ \E j \in 1..Len(jobs) : Deliver(j)
  \/ \E r \in ReqIds : Timeout(r)
  \/ \E r \in ReqIds, o \in PostOutcomes : PostReturn(r, o)

\* The worker's modules as loaded: UsersModule lists users for GET /users
\* and guards every other method; OrdersModule binds nothing that matches.
SpecPaths ==
  Register(
    Register(
      Register(<<>>, "UsersModule", "get",
               [kind |-> "custom", url |-> <<>>, name |-> "isUsers"],
               [body |-> "list", guards |-> <<>>]),
      "UsersModule", "ALL",
      [kind |-> "custom", url |-> <<>>, name |-> "isUsers"],
      [body |-> "get", guards |-> <<"isAuthenticated">>]),
    "OrdersModule", "get",
    [kind |-> "custom", url |-> <<>>, name |-> "never"],
    [body |-> "list", guards |-> <<>>])

Entry(method, path, queue, hooks) ==
  [method |-> method, path |-> path, queue |-> queue, pre |-> hooks,
   post |-> hooks]

SpecMappers ==
  {<<Entry("GET", <<"/", "users">>, "users", FALSE),
     Entry("all", <<"*">>, "users", TRUE)>>,
   <<Entry("GET", <<"/", "users">>, "users", TRUE),
     Entry("GET", <<"/", "orders">>, "orders", FALSE)>>}

InitGateway ==
  /\ reqs = [r \in ReqIds |-> IdleReq]
  /\ jobs = <<>>
  /\ signals = {}
  /\ listeners = {}
  /\ timers = {}
  /\ paths = SpecPaths
  /\ phase = "serve"
  /\ last = NoCall
  /\ NoAux

Init ==
  /\ mapper \in SpecMappers
  /\ InitGateway

Spec == Init /\ [][Next]_vars

\* Timers fire: a running timer of the event loop is not delayed forever.
SpecLive == Spec /\ \A r \in ReqIds : WF_vars(Timeout(r))

\* WorkerProcess on job j is enabled exactly when the job waits in the
\* broker while the worker serves.
JobWaiting(j) ==
  /\ phase = "serve"
  /\ j \in 1..Len(jobs)
  /\ jobs[j].state = "waiting"

\* Workers serve their queues and the broker delivers its events: a
\* waiting job is processed and a published completion event arrives. A
\* WorkerProcess step on job j ends JobWaiting(j), so weak fairness of that
\* step, WF_vars(\E h : WorkerProcess(j, h)), is []<>~JobWaiting(j).
SpecWorkLive ==
  /\ Spec
  /\ \A j \in 1..MaxReq :
       /\ []<>~JobWaiting(j)
       /\ WF_vars(j \in 1..Len(jobs) /\ Deliver(j))

\* ------------------------------------------- one request, any mapping
MapMethods == {"GET", "all"}
MapPaths == {<<"/", "users">>, <<"/", ":id">>}

Entries ==
  {Entry(m, p, q, hk) : m \in MapMethods, p \in MapPaths, q \in Queues,
                        hk \in BOOLEAN}

AllMappers == UNION {[1..n -> Entries] : n \in 0..MaxEntries}

InitMapper ==
  /\ mapper \in AllMappers
  /\ reqs = [r \in ReqIds |->
               IF r = 1 THEN IdleReq ELSE [IdleReq EXCEPT !.pc = "off"]]
  /\ jobs = <<>>
  /\ signals = {}
  /\ listeners = {}
  /\ timers = {}
  /\ paths = SpecPaths
  /\ phase = "serve"
  /\ last = NoCall
  /\ NoAux

SpecMapper == InitMapper /\ [][Next]_vars

\* ------------------------------------------------------ Health Aggregator
SERVICE_UNAVAILABLE == 503

MaxProbeEntries == 3  \* Mapping Entries of a table a health check reads

\* mapper.map((m) => m.queue)
QueueNames(mp) == [i \in 1..Len(mp) |-> mp[i].queue]

\* uniq(array) of lodash: the first occurrence of each value, in order.
UniqKeepAll(s) == s

RECURSIVE Uniq(_)

Uniq(s) ==
  IF s = <<>> THEN <<>>
  ELSE LET rest == Uniq(SubSeq(s, 1, Len(s) - 1))
       IN  IF \E i \in 1..Len(rest) : rest[i] = s[Len(s)] THEN rest
           ELSE Append(rest, s[Len(s)])

\* The data of a probe job.
HealthData == [method |-> "HEALTH", url |-> <<>>, user |-> "none"]

NoEntry == [queue |-> "", kind |-> "none", statusCode |-> NoCode, error |-> ""]

\* What the task of one key resolves with when its wait resolved:
\* {...result, result: undefined, queue: key, elapsed}.
ProbeResult(key, result) ==
  [queue |-> key, kind |-> "result", statusCode |-> result.statusCode,
   error |-> ""]

\* What the task of one key resolves with from its catch block.
ProbeError(key, e) ==
  [queue |-> key, kind |-> "error",
   statusCode |-> IF e.statusCode # NoCode THEN e.statusCode
                  ELSE INTERNAL_SERVER_ERROR,
   error |-> e.message]

\* One task of keys.map(async (key) => ...): saves counts its calls of
\* createJob(data).save(), waited whether it called wait().
NewTask ==
  [pc |-> "saving", saves |-> 1, job |-> 0, waited |-> FALSE,
   entry |-> NoEntry]

\* Promise.all over the tasks: pending until every task has resolved.
AllSettledFirst(tasks) ==
  IF \E k \in DOMAIN tasks : tasks[k].pc = "done" THEN "fulfilled"
  ELSE "pending"

AllSettled(tasks) ==
  IF \A k \in DOMAIN tasks : tasks[k].pc = "done" THEN "fulfilled"
  ELSE "pending"

\* The response of the health check, from the tasks' entries.
AggregateLast(result) ==
  IF Len(result) > 0 /\ result[Len(result)].statusCode # OK
  THEN [kind |-> "error", statusCode |-> SERVICE_UNAVAILABLE,
        error |-> "Internal Server Error", result |-> <<>>, elapsed |-> TRUE]
  ELSE [kind |-> "result", statusCode |-> OK, error |-> "",
        result |-> result, elapsed |-> TRUE]

Aggregate(result) ==
  IF \E i \in 1..Len(result) : result[i].statusCode # OK
  THEN [kind |-> "error", statusCode |-> SERVICE_UNAVAILABLE,
        error |-> "Internal Server Error", result |-> <<>>, elapsed |-> TRUE]
  ELSE [kind |-> "result", statusCode |-> OK, error |-> "",
        result |-> result, elapsed |-> TRUE]

NoHealthResp ==
  [kind |-> "none", statusCode |-> NoCode, error |-> "", result |-> <<>>,
   elapsed |-> FALSE]

IdleHealth ==
  [pc |-> "idle", keys |-> <<>>, tasks |-> <<>>, resp |-> NoHealthResp]

\* GET /health reaches its handler: the distinct queue names are computed
\* and one task per key runs up to its await of createJob(data).save().
HealthRequest ==
  /\ health.pc = "idle"
  /\ LET keys == Uniq(QueueNames(mapper))
     IN  health' = [health EXCEPT !.pc = "gather", !.keys = keys,
                                  !.tasks = [k \in 1..Len(keys) |-> NewTask]]
  /\ UNCHANGED <<tx, registry, boot>>
  /\ UNCHANGED restVars
  /\ UNCHANGED gatewayVars
  /\ UNCHANGED routeVars

\* await queue.createJob(data).save() of the task of key k settles: the
\* task calls wait() on the job, or its catch block yields an error entry.
ProbeSaveDone(k, ok) ==
  /\ health.pc = "gather"
  /\ health.tasks[k].pc = "saving"
  /\ IF ok
     THEN LET id == Len(jobs) + 1
          IN  /\ jobs' = Append(jobs,
                   [queue |-> health.keys[k], data |-> HealthData,
                    owner |-> k, state |-> "waiting", report |-> NoReport,
                    thrown |-> Failure(NoCode, "")])
              /\ listeners' = listeners \cup WaitListeners(k, id)
              /\ timers' = timers \cup {k}
              /\ health' = [health EXCEPT !.tasks[k] =
                   [@ EXCEPT !.pc = "waiting", !.job = id, !.waited = TRUE]]
     ELSE /\ health' = [health EXCEPT !.tasks[k] =
                   [@ EXCEPT !.pc = "done",
                             !.entry = ProbeError(health.keys[k],
                                         Failure(NoCode, "save failed"))]]
          /\ UNCHANGED <<jobs, listeners, timers>>
  /\ UNCHANGED <<mapper, reqs, signals>>
  /\ UNCHANGED <<tx, registry, boot>>
  /\ UNCHANGED restVars
  /\ UNCHANGED routeVars

\* The completion event of probe job j reaches the health check's wait.
ProbeDeliver(j) ==
  /\ health.pc \in {"gather", "done"}
  /\ j \in signals
  /\ signals' = signals \ {j}
  /\ LET rep == jobs[j].report
         R == {l.req : l \in {x \in listeners :
                                x.job = j /\ x.ev = rep.kind}}
     IN  /\ listeners' = OnSignalListeners(listeners, R)
         /\ timers' = OnSignalTimers(timers, R)
         /\ health' = [health EXCEPT !.tasks =
              [k \in DOMAIN health.tasks |->
                 IF k \in R
                 THEN [health.tasks[k] EXCEPT
                         !.pc = "done",
                         !.entry =
                           IF rep.kind = "succeeded"
                           THEN ProbeResult(health.keys[k], rep)
                           ELSE ProbeError(health.keys[k], WaitFailure(rep))]
                 ELSE health.tasks[k]]]
  /\ UNCHANGED <<mapper, reqs, jobs>>
  /\ UNCHANGED <<tx, registry, boot>>
  /\ UNCHANGED restVars
  /\ UNCHANGED routeVars

\* The 3 s timer of the wait of the task of key k fires.
ProbeTimeout(k) ==
  /\ health.pc = "gather"
  /\ k \in timers
  /\ timers' = timers \ {k}
  /\ listeners' = OnTimeoutListeners(listeners, k)
  /\ health' = [health EXCEPT !.tasks[k] =
       [@ EXCEPT !.pc = "done",
                 !.entry = ProbeError(health.keys[k], GatewayTimeout)]]
  /\ UNCHANGED <<mapper, reqs, jobs, signals>>
  /\ UNCHANGED <<tx, registry, boot>>
  /\ UNCHANGED restVars
  /\ UNCHANGED routeVars

\* Promise.all resolved: the handler aggregates and returns.
HealthReturn ==
  /\ health.pc = "gather"
  /\ AllSettled(health.tasks) = "fulfilled"
  /\ health' = [health EXCEPT
       !.pc = "done",
       !.resp = Aggregate([k \in DOMAIN health.tasks |->
                             health.tasks[k].entry])]
  /\ UNCHANGED <<tx, registry, boot>>
  /\ UNCHANGED restVars
  /\ UNCHANGED gatewayVars
  /\ UNCHANGED routeVars

\* The worker's modules answer probes: each binds a handler to HEALTH.
HealthPaths ==
  Register(
    Register(<<>>, "UsersModule", "health",
             [kind |-> "custom", url |-> <<>>, name |-> "isHealth"],
             [body |-> "health", guards |-> <<>>]),
    "OrdersModule", "health",
    [kind |-> "custom", url |-> <<>>, name |-> "isHealth"],
    [body |-> "health", guards |-> <<>>])

HealthMappers ==
  UNION {[1..n -> {Entry("GET", <<"/", "users">>, q, FALSE) : q \in Queues}] :
           n \in 0..MaxProbeEntries}

InitHealth ==
  /\ mapper \in HealthMappers
  /\ reqs = <<>>
  /\ jobs = <<>>
  /\ signals = {}
  /\ listeners = {}
  /\ timers = {}
  /\ paths = HealthPaths
  /\ phase = "serve"
  /\ last = NoCall
  /\ health = IdleHealth
  /\ tx = NoTx
  /\ registry = NoRegistry
  /\ boot = NoBoot
  /\ callback = NoCallback
  /\ launch = NoLaunch
  /\ descriptors = NoDescriptors

NextHealth ==
  \/ HealthRequest
  \/ \E k \in 1..MaxProbeEntries, ok \in BOOLEAN :
       k \in DOMAIN health.tasks /\ ProbeSaveDone(k, ok)
  \/ \E j \in 1..Len(jobs), h \in HandlerOutcomes : WorkerProcess(j, h)
  \/ \E j \in 1..Len(jobs) : ProbeDeliver(j)
  \/ \E k \in 1..MaxProbeEntries : ProbeTimeout(k)
  \/ HealthReturn

SpecHealth == InitHealth /\ [][NextHealth]_vars

\* Pending I/O settles: a started timer fires, the broker answers a
\* submission, and a resolved Promise.all resumes the handler.
SpecHealthLive ==
  /\ SpecHealth
  /\ \A k \in 1..MaxProbeEntries :
       /\ WF_vars(ProbeTimeout(k))
       /\ WF_vars(\E ok \in BOOLEAN :
                    k \in DOMAIN health.tasks /\ ProbeSaveDone(k, ok))
  /\ WF_vars(HealthReturn)

\* ------------------------------------------------------- inTransaction
MaxDepth == 3         \* scopes sharing one transaction, nested or in turn

\* An error: where it was raised and how often MyException.throw wrapped it.
TxError(origin) == [origin |-> origin, wraps |-> 0]

NoError == [origin |-> "none", wraps |-> 0]

\* MyException.throw(func, e): throws an exception that carries e.
MyExceptionThrow(e) == [e EXCEPT !.wraps = @ + 1]

\* finally: if (!withTransaction && !rollback) await transaction.commit()
CommitsInFinally(withTransaction, rollback) == ~withTransaction /\ ~rollback

\* One call of inTransaction: its locals withTransaction and rollback, the
\* await it is suspended at (pc), what its callback did (cb), the error
\* that is propagating while finally runs (pending) and what the call
\* yields once it is over (out: "ok" or the error thrown).
NewScope(withTransaction) ==
  [withTransaction |-> withTransaction, rollback |-> FALSE,
   pc |-> IF withTransaction THEN "callback" ELSE "begin",
   cb |-> "none", pending |-> NoError, out |-> NoError, ok |-> FALSE]

IdleTx ==
  [pc |-> "idle",
   state |-> "none",   \* the transaction: none, open, committed, rolledback
   by |-> 0,           \* the scope that opened it, 0 for the caller
   calls |-> <<>>,     \* the commit and rollback calls made on it
   stack |-> <<>>,     \* the scopes running, outermost first
   ended |-> <<>>]     \* the scopes that are over, innermost first

Top == tx.stack[Len(tx.stack)]

Depth == Len(tx.stack)

SetTop(scope) == [tx.stack EXCEPT ![Len(tx.stack)] = scope]

\* The scope is over: the try statement completed.
Finish(scope, ok, e) == [scope EXCEPT !.pc = "done", !.ok = ok, !.out = e]

\* The finally block of a scope whose try or catch block completed with
\* the error e propagating (NoError for a return).
Finally(scope, e) ==
  IF CommitsInFinally(scope.withTransaction, scope.rollback)
  THEN [scope EXCEPT !.pc = "commit", !.pending = e]
  ELSE Finish(scope, e = NoError, e)

\* inTransaction(sequelize, callback, transaction?) is called from outside
\* any scope, with a transaction the caller opened or with none.
TxCall(withTransaction) ==
  /\ tx.pc = "idle"
  /\ tx' = [tx EXCEPT !.pc = "running",
                      !.state = IF withTransaction THEN "open" ELSE "none",
                      !.stack = <<NewScope(withTransaction)>>]
  /\ UNCHANGED <<health, registry, boot>>
  /\ UNCHANGED restVars
  /\ UNCHANGED gatewayVars
  /\ UNCHANGED routeVars

\* await sequelize.transaction() settles.
TxBegin(ok) ==
  /\ tx.pc = "running"
  /\ Top.pc = "begin"
  /\ tx' = IF ok
           THEN [tx EXCEPT !.state = "open", !.by = Depth,
                           !.stack = SetTop([Top EXCEPT !.pc = "callback"])]
           ELSE [tx EXCEPT !.stack =
                   SetTop(Finish(Top, FALSE, TxError("begin")))]
  /\ UNCHANGED <<health, registry, boot>>
  /\ UNCHANGED restVars
  /\ UNCHANGED gatewayVars
  /\ UNCHANGED routeVars

\* The running callback calls inTransaction, passing its transaction on.
TxNest ==
  /\ tx.pc = "running"
  /\ Top.pc = "callback"
  /\ Depth + Len(tx.ended) < MaxDepth
  /\ tx' = [tx EXCEPT !.stack = Append(@, NewScope(TRUE))]
  /\ UNCHANGED <<health, registry, boot>>
  /\ UNCHANGED restVars
  /\ UNCHANGED gatewayVars
  /\ UNCHANGED routeVars

\* await callback(transaction) settles: the callback returned, or threw e.
TxCallback(ok) ==
  /\ tx.pc = "running"
  /\ Top.pc = "callback"
  /\ tx' = [tx EXCEPT !.stack = SetTop(
       IF ok
       THEN Finally([Top EXCEPT !.cb = "returned"], NoError)
       ELSE LET scope == [Top EXCEPT !.cb = "threw"]
            IN  IF ~scope.withTransaction
                THEN [scope EXCEPT !.pc = "rollback"]
                ELSE Finally(scope, MyExceptionThrow(TxError("callback"))))]
  /\ UNCHANGED <<health, registry, boot>>
  /\ UNCHANGED restVars
  /\ UNCHANGED gatewayVars
  /\ UNCHANGED routeVars

\* await transaction.rollback() in the catch block settles: on success
\* rollback is set and MyException.throw rethrows; a failure leaves the
\* catch block at once. Either way the finally block runs next.
TxRollback(ok) ==
  /\ tx.pc = "running"
  /\ Top.pc = "rollback"
  /\ tx' = [tx EXCEPT
       !.calls = Append(@, [op |-> "rollback", by |-> Depth, ok |-> ok]),
       !.state = IF ok THEN "rolledback" ELSE @,
       !.stack = SetTop(
         IF ok
         THEN Finally([Top EXCEPT !.rollback = TRUE],
                      MyExceptionThrow(TxError("callback")))
         ELSE Finally(Top, TxError("rollback")))]
  /\ UNCHANGED <<health, registry, boot>>
  /\ UNCHANGED restVars
  /\ UNCHANGED gatewayVars
  /\ UNCHANGED routeVars

\* await transaction.commit() in the finally block settles: a failure
\* replaces whatever was propagating.
TxCommit(ok) ==
  /\ tx.pc = "running"
  /\ Top.pc = "commit"
  /\ tx' = [tx EXCEPT
       !.calls = Append(@, [op |-> "commit", by |-> Depth, ok |-> ok]),
       !.state = IF ok THEN "committed" ELSE @,
       !.stack = SetTop(
         IF ok THEN Finish(Top, Top.pending = NoError, Top.pending)
         ELSE Finish(Top, FALSE, TxError("commit")))]
  /\ UNCHANGED <<health, registry, boot>>
  /\ UNCHANGED restVars
  /\ UNCHANGED gatewayVars
  /\ UNCHANGED routeVars

\* The promise of a call settles: the calling callback goes on (it may
\* catch what a nested call threw), or the outermost caller has the result.
TxSettled ==
  /\ tx.pc = "running"
  /\ Top.pc = "done"
  /\ tx' = [tx EXCEPT
       !.ended = Append(@, [Top EXCEPT !.pc = Depth]),
       !.stack = SubSeq(@, 1, Len(@) - 1),
       !.pc = IF Depth = 1 THEN "over" ELSE @]
  /\ UNCHANGED <<health, registry, boot>>
  /\ UNCHANGED restVars
  /\ UNCHANGED gatewayVars
  /\ UNCHANGED routeVars

InitTx ==
  /\ paths = <<>>
  /\ phase = "serve"
  /\ last = NoCall
  /\ mapper = <<>>
  /\ reqs = <<>>
  /\ jobs = <<>>
  /\ signals = {}
  /\ listeners = {}
  /\ timers = {}
  /\ health = NoHealth
  /\ tx = IdleTx
  /\ registry = NoRegistry
  /\ boot = NoBoot
  /\ callback = NoCallback
  /\ launch = NoLaunch
  /\ descriptors = NoDescriptors

NextTx ==
  \/ \E withTransaction \in BOOLEAN : TxCall(withTransaction)
  \/ \E ok \in BOOLEAN : TxBegin(ok)
  \/ TxNest
  \/ \E ok \in BOOLEAN : TxCallback(ok)
  \/ \E ok \in BOOLEAN : TxRollback(ok)
  \/ \E ok \in BOOLEAN : TxCommit(ok)
  \/ TxSettled

SpecTx == InitTx /\ [][NextTx]_vars

\* -------------------------------------------------- Dependency Registry
MaxNew == 2           \* constructions of Dependencies
MaxRegs == 3          \* register calls

\* Classes: a class is an object of its own; name is its name property.
\* Two classes, declared in different modules, are both named Cache.
Classes ==
  {[class |-> 1, name |-> "Sequelize"],
   [class |-> 2, name |-> "Cache"],
   [class |-> 3, name |-> "Cache"]}

\* The objects a dependency can be: two instances of each class.
Instances == {[constructor |-> c, obj |-> n] : c \in Classes, n \in 1..2}

NoInstance == [constructor |-> [class |-> 0, name |-> ""], obj |-> 0]

\* dependency.constructor.name of register, dependency.name of get.
KeyOfInstance(dependency) == dependency.constructor.name

KeyOfClass(dependency) == dependency.name

\* constructor(): the object a `new Dependencies()` expression yields when
\* `this` is the n-th object created and instance the static field.
Constructed(instance, n) == IF instance = 0 THEN n ELSE instance

\* register(dependency): this.dependencies[key] = dependency
RegisterDep(dependencies, dependency) ==
  Extend(dependencies, KeyOfInstance(dependency), dependency)

\* get(dependency): the stored instance, or InternalServerError.
GetDep(dependencies, dependency) ==
  LET key == KeyOfClass(dependency)
  IN  IF key \in DOMAIN dependencies
      THEN [kind |-> "ok", statusCode |-> NoCode, result |-> dependencies[key]]
      ELSE [kind |-> "error", statusCode |-> INTERNAL_SERVER_ERROR,
            result |-> NoInstance]

NoGet == [kind |-> "none", statusCode |-> NoCode, result |-> NoInstance]

\* instance: Dependencies.instance (0 while unset); created: objects made
\* by `new`; handles: what each `new Dependencies()` yielded;
\* dependencies: the field of each created object; regs: the register
\* calls so far; asked, at and got: the last get call, the number of
\* register calls that preceded it, and its outcome.
IdleRegistry ==
  [pc |-> "on", instance |-> 0, created |-> 0, handles |-> <<>>,
   dependencies |-> <<>>, regs |-> <<>>,
   asked |-> [class |-> 0, name |-> ""], at |-> 0, got |-> NoGet]

\* new Dependencies()
NewDependencies ==
  /\ registry.pc = "on"
  /\ registry.created < MaxNew
  /\ LET n == registry.created + 1
         handle == Constructed(registry.instance, n)
     IN  registry' = [registry EXCEPT
           !.created = n,
           !.instance = IF @ = 0 THEN n ELSE @,
           !.dependencies = Append(@, <<>>),
           !.handles = Append(@, handle)]
  /\ UNCHANGED <<health, tx, boot>>
  /\ UNCHANGED restVars
  /\ UNCHANGED gatewayVars
  /\ UNCHANGED routeVars

\* handle.register(dependency), on the object the i-th construction gave.
RegisterCall(i, dependency) ==
  /\ registry.pc = "on"
  /\ i \in 1..Len(registry.handles)
  /\ Len(registry.regs) < MaxRegs
  /\ registry' = [registry EXCEPT
       !.dependencies[registry.handles[i]] = RegisterDep(@, dependency),
       !.regs = Append(@, dependency)]
  /\ UNCHANGED <<health, tx, boot>>
  /\ UNCHANGED restVars
  /\ UNCHANGED gatewayVars
  /\ UNCHANGED routeVars

\* handle.get(dependency), on the object the i-th construction gave.
GetCall(i, dependency) ==
  /\ registry.pc = "on"
  /\ i \in 1..Len(registry.handles)
  /\ registry' = [registry EXCEPT
       !.asked = dependency,
       !.at = Len(registry.regs),
       !.got = GetDep(registry.dependencies[registry.handles[i]],
                      dependency)]
  /\ UNCHANGED <<health, tx, boot>>
  /\ UNCHANGED restVars
  /\ UNCHANGED gatewayVars
  /\ UNCHANGED routeVars

InitDeps ==
  /\ paths = <<>>
  /\ phase = "serve"
  /\ last = NoCall
  /\ mapper = <<>>
  /\ reqs = <<>>
  /\ jobs = <<>>
  /\ signals = {}
  /\ listeners = {}
  /\ timers = {}
  /\ health = NoHealth
  /\ tx = NoTx
  /\ registry = IdleRegistry
  /\ boot = NoBoot
  /\ callback = NoCallback
  /\ launch = NoLaunch
  /\ descriptors = NoDescriptors

NextDeps ==
  \/ NewDependencies
  \/ \E i \in 1..MaxNew, dependency \in Instances : RegisterCall(i, dependency)
  \/ \E i \in 1..MaxNew, dependency \in Classes : GetCall(i, dependency)

SpecDeps == InitDeps /\ [][NextDeps]_vars

\* ------------------------------------------------------ Worker bootstrap
MaxFactories == 2     \* exports of ./dependency
MaxModules == 2       \* entries of config.modules
MaxReceived == 2      \* jobs the worker's queues hand to it

SequelizeObj == [constructor |-> [class |-> 1, name |-> "Sequelize"], obj |-> 1]

DaoHelperObj == [constructor |-> [class |-> 4, name |-> "DaoHelper"], obj |-> 1]

\* A Promise.all that nobody awaits: the caller goes on at once.
PromiseAllNotAwaited(ps) == "resolved"

\* Promise.all(ps): rejected as soon as one of ps is, resolved once all are.
PromiseAll(ps) ==
  IF \E k \in DOMAIN ps : ps[k] = "rejected" THEN "rejected"
  ELSE IF \A k \in DOMAIN ps : ps[k] = "resolved" THEN "resolved"
  ELSE "pending"

\* Object.keys(dependencies_).map(async (key) => ...): every factory is
\* called, none has settled.
Called(ps) == [k \in DOMAIN ps |-> "pending"]

\* pc: where the callback of workerMain is; database: config.database;
\* dependencies: the object `new Dependencies()` gave; factories: the
\* promise of each export of ./dependency; modules: how far each entry of
\* config.modules is; received: jobs handed to the process callbacks.
StartBoot(database, nf, nm) ==
  [pc |-> "start", database |-> database, dependencies |-> 0,
   factories |-> [k \in 1..nf |-> "idle"],
   modules |-> [m \in 1..nm |-> "idle"],
   received |-> 0]

\* const dependencies = new Dependencies(), then either the await of
\* connectDB or, without a database, the factories of ./dependency.
WorkerMain ==
  /\ boot.pc = "start"
  /\ LET n == registry.created + 1
         handle == Constructed(registry.instance, n)
     IN  /\ registry' = [registry EXCEPT
               !.created = n,
               !.instance = IF @ = 0 THEN n ELSE @,
               !.dependencies = Append(@, <<>>),
               !.handles = Append(@, handle)]
         /\ boot' = IF boot.database
                    THEN [boot EXCEPT !.pc = "connectDB",
                                      !.dependencies = handle]
                    ELSE [boot EXCEPT !.pc = "deps",
                                      !.dependencies = handle,
                                      !.factories = Called(@)]
  /\ UNCHANGED <<health, tx>>
  /\ UNCHANGED restVars
  /\ UNCHANGED gatewayVars
  /\ UNCHANGED routeVars

\* connectDB settles: sequelize and daoHelper are registered and the
\* factories called, or the callback of workerMain ends with the error.
ConnectDB(ok) ==
  /\ boot.pc = "connectDB"
  /\ IF ok
     THEN /\ registry' = [registry EXCEPT
                !.dependencies[boot.dependencies] =
                   RegisterDep(RegisterDep(@, SequelizeObj), DaoHelperObj),
                !.regs = @ \o <<SequelizeObj, DaoHelperObj>>]
          /\ boot' = [boot EXCEPT !.pc = "deps", !.factories = Called(@)]
     ELSE /\ boot' = [boot EXCEPT !.pc = "failed"]
          /\ UNCHANGED registry
  /\ UNCHANGED <<health, tx>>
  /\ UNCHANGED restVars
  /\ UNCHANGED gatewayVars
  /\ UNCHANGED routeVars

\* dependencies.register(await dependencies_[key](config)): the factory of
\* key settles; what it resolved to is registered.
FactorySettled(k, ok, dependency) ==
  /\ k \in DOMAIN boot.factories
  /\ boot.factories[k] = "pending"
  /\ IF ok
     THEN /\ registry' = [registry EXCEPT
                !.dependencies[boot.dependencies] =
                   RegisterDep(@, dependency),
                !.regs = Append(@, dependency)]
          /\ boot' = [boot EXCEPT !.factories[k] = "resolved"]
     ELSE /\ boot' = [boot EXCEPT !.factories[k] = "rejected"]
          /\ UNCHANGED registry
  /\ UNCHANGED <<health, tx>>
  /\ UNCHANGED restVars
  /\ UNCHANGED gatewayVars
  /\ UNCHANGED routeVars

\* await Promise.all(...) resolves: config.modules.map starts every import.
DepsAwaited ==
  /\ boot.pc = "deps"
  /\ PromiseAll(boot.factories) = "resolved"
  /\ boot' = [boot EXCEPT
       !.pc = "modules",
       !.modules = [m \in DOMAIN @ |-> "importing"]]
  /\ UNCHANGED <<health, tx, registry>>
  /\ UNCHANGED restVars
  /\ UNCHANGED gatewayVars
  /\ UNCHANGED routeVars

\* await Promise.all(...) rejects: the callback of workerMain ends there.
DepsFailed ==
  /\ boot.pc = "deps"
  /\ PromiseAll(boot.factories) = "rejected"
  /\ boot' = [boot EXCEPT !.pc = "failed"]
  /\ UNCHANGED <<health, tx, registry>>
  /\ UNCHANGED restVars
  /\ UNCHANGED gatewayVars
  /\ UNCHANGED routeVars

\* import(resolve(__dirname, 'queue', key)) settles.
ModuleImported(m, ok) ==
  /\ m \in DOMAIN boot.modules
  /\ boot.modules[m] = "importing"
  /\ boot' = [boot EXCEPT
       !.modules[m] = IF ok THEN "connecting" ELSE "failed"]
  /\ UNCHANGED <<health, tx, registry>>
  /\ UNCHANGED restVars
  /\ UNCHANGED gatewayVars
  /\ UNCHANGED routeVars

\* connectQueue settles: new module(config, dependencies), queue.process.
QueueConnected(m, ok) ==
  /\ m \in DOMAIN boot.modules
  /\ boot.modules[m] = "connecting"
  /\ boot' = [boot EXCEPT
       !.modules[m] = IF ok THEN "processing" ELSE "failed"]
  /\ UNCHANGED <<health, tx, registry>>
  /\ UNCHANGED restVars
  /\ UNCHANGED gatewayVars
  /\ UNCHANGED routeVars

\* The queue of module m hands a job to the process callback.
JobReceived(m) ==
  /\ m \in DOMAIN boot.modules
  /\ boot.modules[m] = "processing"
  /\ boot.received < MaxReceived
  /\ boot' = [boot EXCEPT !.received = @ + 1]
  /\ UNCHANGED <<health, tx, registry>>
  /\ UNCHANGED restVars
  /\ UNCHANGED gatewayVars
  /\ UNCHANGED routeVars

InitWorker ==
  /\ paths = <<>>
  /\ phase = "serve"
  /\ last = NoCall
  /\ mapper = <<>>
  /\ reqs = <<>>
  /\ jobs = <<>>
  /\ signals = {}
  /\ listeners = {}
  /\ timers = {}
  /\ health = NoHealth
  /\ tx = NoTx
  /\ registry = IdleRegistry
  /\ \E database \in BOOLEAN, nf \in 0..MaxFactories, nm \in 0..MaxModules :
       boot = StartBoot(database, nf, nm)
  /\ callback = NoCallback
  /\ launch = NoLaunch
  /\ descriptors = NoDescriptors

NextWorker ==
  \/ WorkerMain
  \/ \E ok \in BOOLEAN : ConnectDB(ok)
  \/ \E k \in 1..MaxFactories, ok \in BOOLEAN, dependency \in Instances :
       FactorySettled(k, ok, dependency)
  \/ DepsAwaited
  \/ DepsFailed
  \/ \E m \in 1..MaxModules, ok \in BOOLEAN : ModuleImported(m, ok)
  \/ \E m \in 1..MaxModules, ok \in BOOLEAN : QueueConnected(m, ok)
  \/ \E m \in 1..MaxModules : JobReceived(m)

SpecWorker == InitWorker /\ [][NextWorker]_vars

\* ---------------------------------------------- the process callback
MaxDelivered == 2     \* jobs the broker hands to the callback

\* The table of a worker that serves the queue of UsersModule: one guarded
\* binding.
ProcessorPaths ==
  Register(<<>>, "UsersModule", "get",
           [kind |-> "custom", url |-> <<>>, name |-> "isUsers"],
           [body |-> "get", guards |-> <<"isAuthenticated">>])

\* What .catch receives: the rejection of run(), of a handler that threw
\* a nullish value, or what done(null, result) threw.
Reason(out, nullish) ==
  IF out.kind = "error" /\ out.bodyRan /\ nullish
  THEN [nullish |-> TRUE, statusCode |-> NoCode, message |-> ""]
  ELSE [nullish |-> FALSE, statusCode |-> out.statusCode,
        message |-> out.message]

DoneThrew == [nullish |-> FALSE, statusCode |-> NoCode, message |-> "done"]

NoReason == [nullish |-> FALSE, statusCode |-> NoCode, message |-> ""]

\* pc: where the promise chain of the callback is; n: jobs received;
\* data: job.data; out: what run(job.data) settled to; e: the reason
\* handed to .catch; calls: the invocations of done for this job, each with
\* "result" or "error" and whether it threw; unhandled: the chain ended
\* rejected.
IdleCallback ==
  [pc |-> "idle", n |-> 0,
   data |-> [method |-> "", url |-> <<>>, user |-> "none"],
   out |-> Rejected(NoCode, "", <<>>, FALSE), e |-> NoReason,
   calls |-> <<>>, unhandled |-> FALSE]

\* The broker hands a job to the callback: job.data is logged and
\* run(job.data) settles.
ProcessJob(data, h, nullish) ==
  /\ callback.pc \in {"idle", "over"}
  /\ callback.n < MaxDelivered
  /\ LET r == Run(paths, "UsersModule", data, h)
     IN  /\ paths' = r.paths
         /\ callback' = [callback EXCEPT
               !.pc = IF r.out.kind = "ok" THEN "then" ELSE "catch",
               !.n = @ + 1,
               !.data = data,
               !.out = r.out,
               !.e = IF r.out.kind = "ok" THEN NoReason
                     ELSE Reason(r.out, nullish),
               !.calls = <<>>,
               !.unhandled = FALSE]
  /\ UNCHANGED <<phase, last>>
  /\ UNCHANGED gatewayVars
  /\ UNCHANGED <<health, tx, registry, boot, launch, descriptors>>

\* .then((result) => done(null, result)); what done throws rejects the
\* promise .catch is attached to.
ThenDone(threw) ==
  /\ callback.pc = "then"
  /\ callback' = [callback EXCEPT
       !.pc = IF threw THEN "catch" ELSE "over",
       !.e = IF threw THEN DoneThrew ELSE @,
       !.calls = Append(@, [with |-> "result", threw |-> threw])]
  /\ UNCHANGED routeVars
  /\ UNCHANGED gatewayVars
  /\ UNCHANGED <<health, tx, registry, boot, launch, descriptors>>

\* .catch((e) => { queueLogger.error(e, e.message); done(...) }): reading
\* e.message of a nullish e throws before done is reached.
CatchDone(threw) ==
  /\ callback.pc = "catch"
  /\ IF callback.e.nullish
     THEN callback' = [callback EXCEPT !.pc = "over", !.unhandled = TRUE]
     ELSE callback' = [callback EXCEPT
            !.pc = "over",
            !.unhandled = threw,
            !.calls = Append(@, [with |-> "error", threw |-> threw])]
  /\ UNCHANGED routeVars
  /\ UNCHANGED gatewayVars
  /\ UNCHANGED <<health, tx, registry, boot, launch, descriptors>>

InitProcessor ==
  /\ paths = ProcessorPaths
  /\ phase = "serve"
  /\ last = NoCall
  /\ mapper = <<>>
  /\ reqs = <<>>
  /\ jobs = <<>>
  /\ signals = {}
  /\ listeners = {}
  /\ timers = {}
  /\ health = NoHealth
  /\ tx = NoTx
  /\ registry = NoRegistry
  /\ boot = NoBoot
  /\ callback = IdleCallback
  /\ launch = NoLaunch
  /\ descriptors = NoDescriptors

NextProcessor ==
  \/ \E data \in WorkerData, h \in HandlerOutcomes, nullish \in BOOLEAN :
       ProcessJob(data, h, nullish)
  \/ \E threw \in BOOLEAN : ThenDone(threw)
  \/ \E threw \in BOOLEAN : CatchDone(threw)

SpecProcessor == InitProcessor /\ [][NextProcessor]_vars

\* ------------------------------------- directives applied to a method
PropertyKeys == {"list", "get"}

\* descriptor.value after Guard(...guardFuncs) is applied: the wrapper runs
\* guardFuncs, then the function it replaced.
GuardWrap(func, guardFuncs) == [func EXCEPT !.guards = guardFuncs \o @]

\* value: descriptor.value, first the method itself; guardFuncs: every
\* guard a Guard directive was given for the method; bound: a Path
\* directive was applied to it.
Undecorated ==
  [key \in PropertyKeys |->
     [value |-> [body |-> key, guards |-> <<>>], guardFuncs |-> <<>>,
      bound |-> FALSE]]

\* Guard(...guardFuncs) is applied to the method key of UsersModule.
ApplyGuard(key, guardFuncs) ==
  /\ phase = "load"
  /\ guardFuncs # <<>>
  /\ Len(descriptors[key].guardFuncs) + Len(guardFuncs) <= MaxGuards
  /\ descriptors' = [descriptors EXCEPT
       ![key].value = GuardWrap(@, guardFuncs),
       ![key].guardFuncs = guardFuncs \o @]
  /\ UNCHANGED routeVars
  /\ UNCHANGED gatewayVars
  /\ UNCHANGED <<health, tx, registry, boot, callback, launch>>

\* Path(method, url) is applied to the method key of UsersModule: it
\* pushes descriptor.value as it is now.
ApplyPath(key, method, m) ==
  /\ phase = "load"
  /\ Bindings(paths) < MaxBindings
  /\ paths' = Register(paths, "UsersModule", method, m, descriptors[key].value)
  /\ descriptors' = [descriptors EXCEPT ![key].bound = TRUE]
  /\ UNCHANGED <<phase, last>>
  /\ UNCHANGED gatewayVars
  /\ UNCHANGED <<health, tx, registry, boot, callback, launch>>

InitDirective ==
  /\ paths = <<>>
  /\ phase = "load"
  /\ last = NoCall
  /\ mapper = <<>>
  /\ reqs = <<>>
  /\ jobs = <<>>
  /\ signals = {}
  /\ listeners = {}
  /\ timers = {}
  /\ health = NoHealth
  /\ tx = NoTx
  /\ registry = NoRegistry
  /\ boot = NoBoot
  /\ callback = NoCallback
  /\ launch = NoLaunch
  /\ descriptors = Undecorated

\* The directives and the jobs drawn: one guard, the custom matchers, GET
\* jobs for the queue of UsersModule.
DirectiveGuards == {fs \in GuardLists : \A i \in DOMAIN fs : fs[i] = "isAuthenticated"}

DirectiveMatchers == {m \in Matchers : m.kind = "custom"}

DirectiveData == {d \in RouteData : d.method = "GET"}

NextDirective ==
  \/ \E key \in PropertyKeys, guardFuncs \in DirectiveGuards :
       ApplyGuard(key, guardFuncs)
  \/ \E key \in PropertyKeys, method \in DirectiveMethods,
        m \in DirectiveMatchers :
       ApplyPath(key, method, m)
  \/ Bootstrapped
  \/ \E data \in DirectiveData, h \in RouteOutcomes :
       RunCall("UsersModule", data, h)

SpecDirective == InitDirective /\ [][NextDirective]_vars

\* ------------------------------------------------------ Process Topology
MaxCpus == 2          \* cpus().length
MaxClusters == 3      \* config.clusters when it is a number

\* config.clusters: false, true or a number.
ClusterSettings ==
  {[type |-> "boolean", bool |-> b, number |-> 0] : b \in BOOLEAN}
    \cup {[type |-> "number", bool |-> FALSE, number |-> n] :
             n \in 0..MaxClusters}

\* let clusters: number, as main computes it.
Clusters(setting, cpus) ==
  IF setting.type = "boolean" /\ setting.bool THEN cpus
  ELSE IF setting.type = "boolean" THEN 0
  ELSE setting.number

\* switch (true): the first case that holds; without one serverType stays
\* undefined.
ServerTypeOf(port, modules) ==
  IF port /\ modules THEN "HYBRID"
  ELSE IF port THEN "MASTER"
  ELSE IF modules THEN "WORKER"
  ELSE "undefined"

\* What main calls in a process, given cluster.isPrimary.
Started(clusters, serverType, isPrimary) ==
  IF clusters = 0
  THEN (IF serverType # "WORKER" THEN {"masterMain"} ELSE {})
         \cup (IF serverType # "MASTER" THEN {"workerMain"} ELSE {})
  ELSE IF isPrimary
  THEN (IF serverType = "HYBRID" THEN {"masterMain"} ELSE {})
  ELSE IF serverType = "MASTER" THEN {"masterMain"}
  ELSE {"workerMain"}

\* cluster.fork(), clusters times, by the primary.
Forked(clusters, isPrimary) ==
  IF clusters # 0 /\ isPrimary
  THEN [i \in 1..clusters |-> [isPrimary |-> FALSE, pc |-> "main",
                                started |-> {}]]
  ELSE <<>>

\* port, modules: 'port' in config, 'modules' in config; clusters:
\* config.clusters; cpus: cpus().length; procs: the OS processes, each at
\* the start of main or past it, with what main started in it.
StartLaunch(port, modules, setting, cpus) ==
  [pc |-> "on", port |-> port, modules |-> modules, clusters |-> setting,
   cpus |-> cpus,
   procs |-> <<[isPrimary |-> TRUE, pc |-> "main", started |-> {}]>>]

\* main() runs in process p.
Main(p) ==
  /\ launch.pc = "on"
  /\ p \in DOMAIN launch.procs
  /\ launch.procs[p].pc = "main"
  /\ LET clusters == Clusters(launch.clusters, launch.cpus)
         serverType == ServerTypeOf(launch.port, launch.modules)
         isPrimary == launch.procs[p].isPrimary
     IN  launch' = [launch EXCEPT
           !.procs = [@ EXCEPT ![p] =
                        [@ EXCEPT !.pc = "done",
                                  !.started = Started(clusters, serverType,
                                                      isPrimary)]]
                     \o Forked(clusters, isPrimary)]
  /\ UNCHANGED routeVars
  /\ UNCHANGED gatewayVars
  /\ UNCHANGED <<health, tx, registry, boot, callback, descriptors>>

InitLaunch ==
  /\ paths = <<>>
  /\ phase = "serve"
  /\ last = NoCall
  /\ mapper = <<>>
  /\ reqs = <<>>
  /\ jobs = <<>>
  /\ signals = {}
  /\ listeners = {}
  /\ timers = {}
  /\ health = NoHealth
  /\ tx = NoTx
  /\ registry = NoRegistry
  /\ boot = NoBoot
  /\ callback = NoCallback
  /\ descriptors = NoDescriptors
  /\ \E port \in BOOLEAN, modules \in BOOLEAN, setting \in ClusterSettings,
        cpus \in 1..MaxCpus :
       launch = StartLaunch(port, modules, setting, cpus)

NextLaunch == \E p \in 1..(MaxClusters + 1) : Main(p)

SpecLaunch == InitLaunch /\ [][NextLaunch]_vars

\* ------------------------------------------------------------- claims
\* The first predicate of fs that is false of data, 0 when all are true.
FirstFalse(fs, data) ==
  IF \A i \in 1..Len(fs) : Pred(fs[i], data) THEN 0
  ELSE CHOOSE i \in 1..Len(fs) :
         /\ ~Pred(fs[i], data)
         /\ \A j \in 1..(i - 1) : Pred(fs[j], data)

\* C9: for every ordered list of guard predicates, the predicates are
\* invoked in order up to and including the first one that returns false
\* and none after it; the call then signals Forbidden (403) and the handler
\* body does not run. When every predicate returns true all of them were
\* invoked and the call yields what the wrapped handler body yields.
C9_GuardShortCircuit ==
  last.op = "guard" =>
    LET k == FirstFalse(last.fs, last.data)
    IN  IF k = 0
        THEN /\ last.out.invoked = last.fs
             /\ last.out.bodyRan
             /\ last.out = Body(last.h, last.fs)
        ELSE /\ last.out.invoked = SubSeq(last.fs, 1, k)
             /\ ~last.out.bodyRan
             /\ last.out.kind = "error"
             /\ last.out.statusCode = FORBIDDEN

\* C9 witness: a list of two guards whose first predicate returned false
\* was called: only the first was invoked and the body did not run.
C9_Witness ==
  /\ last.op = "guard"
  /\ Len(last.fs) = 2
  /\ ~Pred(last.fs[1], last.data)
  /\ last.out.invoked = <<last.fs[1]>>
  /\ ~last.out.bodyRan

\* Whether a matcher accepts a request whose url is normalized: a literal
\* path pattern matches structurally, a custom predicate decides itself.
Accepts(m, d) ==
  IF m.kind = "string" THEN MatchPath(FixUrl(m.url), d.url).matches
  ELSE CustomCheck(m.name, d)

BinOf(p, cls, method) ==
  IF cls \in DOMAIN p /\ method \in DOMAIN p[cls] THEN p[cls][method]
  ELSE <<>>

FirstAccepting(bin, d) ==
  IF \A i \in 1..Len(bin) : ~Accepts(bin[i].check, d) THEN 0
  ELSE CHOOSE i \in 1..Len(bin) :
         /\ Accepts(bin[i].check, d)
         /\ \A j \in 1..(i - 1) : ~Accepts(bin[j].check, d)

\* C10: for every Route Table (a module with no bindings included) and
\* every request, run() resolves the first entry of the request's method
\* bin whose matcher accepts the normalized request, else the first
\* accepting entry of the ALL bin, else it signals NotFound (404).
C10_ResolveFirstMatch ==
  last.op = "run" =>
    LET d == [last.data EXCEPT !.url = FixUrl(last.data.url)]
        i1 == FirstAccepting(BinOf(paths, last.cls, last.data.method), d)
        i2 == FirstAccepting(BinOf(paths, last.cls, "ALL"), d)
    IN  IF i1 # 0 THEN last.bin = last.data.method /\ last.idx = i1
        ELSE IF i2 # 0 THEN last.bin = "ALL" /\ last.idx = i2
        ELSE /\ last.idx = 0
             /\ last.out.kind = "error"
             /\ last.out.statusCode = NOT_FOUND

Settled(r) == reqs[r].wait.settles > 0

ListenersOf(r) == {l \in listeners : l.req = r}

\* C1: the wait of every submitted job resolves exactly once, with one of
\* the three outcomes success, failure and timeout: it is never settled a
\* second time, a resolved wait is changed by no later step (a completion
\* signal delivered after the timeout is ignored), and a pending wait
\* does resolve.
C1_ResolvesOnce ==
  /\ [](\A r \in ReqIds :
          /\ reqs[r].wait.settles <= 1
          /\ reqs[r].wait.settles = 1 <=>
               reqs[r].wait.outcome \in {"success", "failure", "timeout"}
          /\ reqs[r].wait.settles = 0 <=> reqs[r].wait.outcome = "none"
          /\ reqs[r].pc \in {"post", "done"} /\ reqs[r].job # 0 =>
               Settled(r))
  /\ [][\A r \in ReqIds : Settled(r) => reqs'[r].wait = reqs[r].wait]_vars
  /\ \A r \in ReqIds : (reqs[r].pc = "waiting") ~> Settled(r)

\* C1 witness: a wait resolved by the timeout, and the completion event of
\* its job was published and delivered afterwards.
C1_Witness ==
  \E r \in ReqIds :
    /\ reqs[r].wait.outcome = "timeout"
    /\ reqs[r].wait.settles = 1
    /\ jobs[reqs[r].job].state \in {"succeeded", "failed"}
    /\ reqs[r].job \notin signals

\* C2: once a wait has resolved, neither of its listeners nor its timer is
\* registered; while it is pending all three are.
C2_NothingLeftRegistered ==
  \A r \in ReqIds :
    /\ Settled(r) => r \notin timers /\ ListenersOf(r) = {}
    /\ reqs[r].pc = "waiting" =>
         /\ r \in timers
         /\ ListenersOf(r) = WaitListeners(r, reqs[r].job)
    /\ (r \in timers \/ ListenersOf(r) # {}) => reqs[r].pc = "waiting"

\* C2 witness: one wait resolved on its success signal while another wait
\* is still pending with its registrations in place.
C2_Witness ==
  \E r1, r2 \in ReqIds :
    /\ reqs[r1].wait.outcome = "success"
    /\ r1 \notin timers
    /\ reqs[r2].pc = "waiting"
    /\ r2 \in timers

IsGatewayTimeout(resp) ==
  /\ resp.kind = "error"
  /\ resp.statusCode = GATEWAY_TIMEOUT
  /\ resp.message = "Gateway Timeout"
  /\ resp.elapsed

\* C3: a request whose job was submitted and whose wait observes no
\* completion signal is eventually answered, and the answer of a wait that
\* timed out is the Error Envelope with statusCode 504 (Gateway Timeout).
C3_TimeoutAnswers ==
  /\ \A r \in ReqIds :
       (reqs[r].pc = "waiting") ~>
         \/ reqs[r].pc = "done" /\ IsGatewayTimeout(reqs[r].resp)
         \/ reqs[r].wait.outcome \in {"success", "failure"}
  /\ [](\A r \in ReqIds :
          reqs[r].wait.outcome = "timeout" =>
            reqs[r].pc = "done" /\ IsGatewayTimeout(reqs[r].resp))

\* C3 witness: a request was answered 504 while no worker has processed
\* its job.
C3_Witness ==
  \E r \in ReqIds :
    /\ reqs[r].pc = "done"
    /\ reqs[r].wait.outcome = "timeout"
    /\ jobs[reqs[r].job].state = "waiting"
    /\ reqs[r].resp.statusCode = GATEWAY_TIMEOUT

\* C4: with several requests waiting, the listeners keyed by a job id
\* belong to one request, the one that submitted that job, and a wait that
\* resolved on a completion signal resolved on the signal of its own job.
C4_OwnJobOnly ==
  /\ \A l \in listeners :
       l.job = reqs[l.req].job /\ jobs[l.job].owner = l.req
  /\ \A r \in ReqIds :
       /\ reqs[r].job # 0 => jobs[reqs[r].job].owner = r
       /\ reqs[r].wait.outcome \in {"success", "failure"} =>
            reqs[r].wait.by = reqs[r].job
  /\ \A r1, r2 \in ReqIds :
       r1 # r2 /\ reqs[r1].job # 0 => reqs[r1].job # reqs[r2].job

\* C4 witness: two requests waited at the same time and the broker
\* completed the later job first; each resolved on its own job.
C4_Witness ==
  \E r1, r2 \in ReqIds :
    /\ reqs[r1].job # 0 /\ reqs[r2].job # 0
    /\ reqs[r1].job < reqs[r2].job
    /\ reqs[r2].wait.outcome \in {"success", "failure"}
    /\ reqs[r1].pc = "waiting"
    /\ jobs[reqs[r1].job].state = "waiting"

PayloadReturned(r) ==
  /\ reqs[r].resp.kind = "result"
  /\ reqs[r].resp.statusCode = jobs[reqs[r].job].report.statusCode
  /\ reqs[r].resp.result = jobs[reqs[r].job].report.result
  /\ reqs[r].resp.elapsed

EntryMatches(e, method, url) ==
  /\ ToUpper(e.method) \in {ToUpper(method), "ALL"}
  /\ MatchPath(e.path, url).matches

\* The first entry, in declaration order, that matches; 0 without one.
FirstMatching(mp, method, url) ==
  IF \A i \in 1..Len(mp) : ~EntryMatches(mp[i], method, url) THEN 0
  ELSE CHOOSE i \in 1..Len(mp) :
         /\ EntryMatches(mp[i], method, url)
         /\ \A k \in 1..(i - 1) : ~EntryMatches(mp[k], method, url)

JobsOf(r) == {j \in 1..Len(jobs) : jobs[j].owner = r}

Arrived(r) == reqs[r].pc \notin {"idle", "off"}

AppendKeepsSelection(r) ==
  reqs[r].entry # 0 =>
    \A e \in Entries :
      SelectEntry(Append(mapper, e), reqs[r].method, reqs[r].url)
        = reqs[r].entry

\* C6 as stated: for every mapping table and every request, exactly one
\* job is submitted, to the queue of the first matching entry; appending
\* an entry does not change the selection; without a matching entry
\* NotFound is signalled and no job is submitted.
C6_Original ==
  \A r \in ReqIds :
    reqs[r].pc = "done" =>
      LET i == FirstMatching(mapper, reqs[r].method, reqs[r].url)
      IN  /\ reqs[r].entry = i
          /\ AppendKeepsSelection(r)
          /\ IF i = 0
             THEN /\ JobsOf(r) = {}
                  /\ reqs[r].resp.kind = "error"
                  /\ reqs[r].resp.statusCode = NOT_FOUND
             ELSE /\ Cardinality(JobsOf(r)) = 1
                  /\ \A j \in JobsOf(r) : jobs[j].queue = mapper[i].queue

\* C6 amended: for every mapping table and every request, the entry the
\* Dispatcher continues with is the first matching entry in declaration
\* order, and appending an entry does not change it; at most one job is
\* submitted, only to that entry's queue, and exactly one unless the
\* entry's pre hook or the submission itself failed (then none is);
\* without a matching entry NotFound is signalled and no job is submitted.
C6_FirstMatchSubmitted ==
  \A r \in ReqIds :
    Arrived(r) =>
      LET i == FirstMatching(mapper, reqs[r].method, reqs[r].url)
      IN  /\ reqs[r].entry = i
          /\ AppendKeepsSelection(r)
          /\ \A j \in JobsOf(r) : i # 0 /\ jobs[j].queue = mapper[i].queue
          /\ Cardinality(JobsOf(r)) <= 1
          /\ i = 0 =>
               /\ reqs[r].pc = "done"
               /\ reqs[r].resp.kind = "error"
               /\ reqs[r].resp.statusCode = NOT_FOUND
          /\ JobsOf(r) = {} <=>
               \/ reqs[r].pc \in {"pre", "saving"}
               \/ reqs[r].fail.step \in {"match", "pre", "submit"}

\* C6 witness: both entries of a table match the request, they name
\* different queues, and the one job went to the first entry's queue.
C6_Witness ==
  \E r \in ReqIds :
    /\ Len(mapper) = 2
    /\ reqs[r].pc = "done"
    /\ EntryMatches(mapper[1], reqs[r].method, reqs[r].url)
    /\ EntryMatches(mapper[2], reqs[r].method, reqs[r].url)
    /\ mapper[1].queue # mapper[2].queue
    /\ \E j \in JobsOf(r) : jobs[j].queue = mapper[1].queue

C8_Original ==
  \A r \in ReqIds :
    /\ reqs[r].pc = "done"
    /\ reqs[r].job # 0
    /\ jobs[reqs[r].job].state = "failed"
    /\ jobs[reqs[r].job].thrown.statusCode # NoCode
    => reqs[r].resp.statusCode = jobs[reqs[r].job].thrown.statusCode

\* C8 amended: a dispatch failure with a status code S is reported to the
\* broker carrying S, one without a status code is reported as the
\* underlying error unchanged; when the failure signal reaches the wait
\* before its timer fires, the response has statusCode S (500 and the
\* underlying message when the failure carried no status code).
C8_FailureCarried ==
  /\ \A j \in 1..Len(jobs) :
       jobs[j].state = "failed" =>
         /\ jobs[j].report.kind = "failed"
         /\ jobs[j].report.message =
              IF jobs[j].thrown.statusCode # NoCode
              THEN ToString(jobs[j].thrown.statusCode)
              ELSE jobs[j].thrown.message
  /\ \A r \in ReqIds :
       reqs[r].wait.outcome = "failure" =>
         LET e == jobs[reqs[r].job].thrown
         IN  /\ reqs[r].pc = "done"
             /\ reqs[r].resp.kind = "error"
             /\ reqs[r].resp.statusCode =
                  IF e.statusCode # NoCode THEN e.statusCode
                  ELSE INTERNAL_SERVER_ERROR
             /\ e.statusCode = NoCode => reqs[r].resp.message = e.message

\* C8 witness: a guard rejected a job (403) and the originating request was
\* answered 403.
C8_Witness ==
  \E r \in ReqIds :
    /\ reqs[r].wait.outcome = "failure"
    /\ jobs[reqs[r].job].thrown = Failure(FORBIDDEN, "Forbidden")
    /\ reqs[r].resp.statusCode = FORBIDDEN

FannedOut == health.pc \in {"gather", "done"}

Referenced(q) == \E i \in 1..Len(mapper) : mapper[i].queue = q

ProbeJobs(q) == {j \in 1..Len(jobs) : jobs[j].queue = q}

TasksOf(q) == {k \in DOMAIN health.tasks : health.keys[k] = q}

ProbeOK(k) ==
  /\ health.tasks[k].entry.kind = "result"
  /\ health.tasks[k].job # 0
  /\ jobs[health.tasks[k].job].report.kind = "succeeded"
  /\ jobs[health.tasks[k].job].report.statusCode = OK

\* C12: the overall status is OK exactly when every per-queue probe
\* returned OK, and the body then carries the per-queue entries; otherwise
\* the status is 503 and the body carries a generic error and no per-queue
\* entry.
C12_OverallStatus ==
  health.pc = "done" =>
    LET allOK == \A k \in DOMAIN health.tasks : ProbeOK(k)
    IN  /\ health.resp.statusCode = OK <=> allOK
        /\ health.resp.elapsed
        /\ allOK =>
             /\ health.resp.kind = "result"
             /\ health.resp.result =
                  [k \in DOMAIN health.tasks |-> health.tasks[k].entry]
        /\ ~allOK =>
             /\ health.resp.kind = "error"
             /\ health.resp.statusCode = SERVICE_UNAVAILABLE
             /\ health.resp.error = "Internal Server Error"
             /\ health.resp.result = <<>>

\* C12 witness: of two queues the first probe timed out and the second
\* returned OK; the check answered 503.
C12_Witness ==
  /\ health.pc = "done"
  /\ Len(health.keys) = 2
  /\ health.tasks[1].entry.statusCode = GATEWAY_TIMEOUT
  /\ ProbeOK(2)
  /\ health.resp.statusCode = SERVICE_UNAVAILABLE

\* The entry of task k records the outcome of the probe of its own queue.
OwnOutcome(k) ==
  LET t == health.tasks[k]
  IN  /\ t.entry.queue = health.keys[k]
      /\ t.job = 0 =>
           /\ ~t.waited
           /\ t.entry.kind = "error"
           /\ t.entry.statusCode = INTERNAL_SERVER_ERROR
      /\ t.job # 0 =>
           /\ t.waited
           /\ jobs[t.job].queue = health.keys[k]
           /\ t.entry.kind = "result" =>
                /\ jobs[t.job].report.kind = "succeeded"
                /\ t.entry.statusCode = jobs[t.job].report.statusCode
           /\ t.entry.kind = "error" =>
                \/ t.entry.statusCode = GATEWAY_TIMEOUT
                \/ /\ jobs[t.job].report.kind = "failed"
                   /\ t.entry.statusCode =
                        IF jobs[t.job].thrown.statusCode # NoCode
                        THEN jobs[t.job].thrown.statusCode
                        ELSE INTERNAL_SERVER_ERROR

C13_HealthNotRouted ==
  last.op = "run" /\ last.data.method = "HEALTH" =>
    \/ last.idx = 0 /\ ~last.out.bodyRan
    \/ last.bin = "HEALTH"

\* C18: once the modules are loaded no call of run() changes the Route
\* Table: the method bins and the entries of each bin are the same before
\* and after the call, also for a method no bin was registered for.
C18_TableReadOnly == [][phase = "serve" => paths' = paths]_vars

TimedOut(r) == reqs[r].wait.outcome = "timeout"

Reported(j) ==
  /\ j \in 1..Len(jobs)
  /\ jobs[j].state \in {"succeeded", "failed"}
  /\ j \notin signals

\* C17: a timeout of the wait does not cancel the job. The job of a
\* request that was answered Gateway Timeout stays with the broker as it
\* was, is still processed by the worker and reported; no listener is left
\* for its completion event, and neither that report nor any later step
\* changes the request or its response.
C17_TimeoutDoesNotCancel ==
  /\ [](\A r \in ReqIds :
          TimedOut(r) =>
            /\ \A l \in listeners : l.job # reqs[r].job /\ l.req # r
            /\ jobs[reqs[r].job].owner = r
            /\ jobs[reqs[r].job].state \in {"waiting", "succeeded", "failed"}
            /\ IsGatewayTimeout(reqs[r].resp))
  /\ [][\A r \in ReqIds :
          /\ TimedOut(r) => reqs'[r] = reqs[r]
          /\ ~TimedOut(r) /\ TimedOut(r)' => jobs' = jobs /\ signals' = signals]_vars
  /\ \A r \in ReqIds :
       TimedOut(r) ~> (Reported(reqs[r].job) /\ IsGatewayTimeout(reqs[r].resp))

\* C17 witness: a request was answered 504 while its job was waiting; the
\* worker then ran the job successfully and its report was delivered.
C17_Witness ==
  \E r \in ReqIds :
    /\ TimedOut(r)
    /\ jobs[reqs[r].job].report.kind = "succeeded"
    /\ Reported(reqs[r].job)
    /\ reqs[r].resp.statusCode = GATEWAY_TIMEOUT
    /\ reqs[r].pc = "done"

CallsOf(op) == {i \in 1..Len(tx.calls) : tx.calls[i].op = op}

\* The scopes that are over and had opened the transaction themselves.
Openers ==
  {i \in 1..Len(tx.ended) :
     ~tx.ended[i].withTransaction /\ tx.ended[i].cb # "none"}

\* C14: a scope that opened the transaction itself performs exactly one of
\* commit and rollback: when its callback succeeded it committed and never
\* rolled back; when its callback failed it rolled back, never committed
\* (also when the rollback failed), and what it throws is the callback's
\* error.
C14_ExactlyOneOfCommitRollback ==
  \A i \in Openers :
    /\ Len(tx.calls) = 1
    /\ tx.ended[i].cb = "returned" =>
         CallsOf("commit") = {1} /\ CallsOf("rollback") = {}
    /\ tx.ended[i].cb = "threw" =>
         /\ CallsOf("rollback") = {1}
         /\ CallsOf("commit") = {}
         /\ tx.ended[i].out.origin = "callback"

\* C15: a transaction passed in is neither committed nor rolled back by the
\* scope it was passed to, whether that scope's callback succeeds or
\* fails; whatever the nesting, commit or rollback is performed once, by
\* the outermost scope, which opened the transaction.
C15_PassedInUntouched ==
  /\ \A i \in 1..Len(tx.calls) : tx.calls[i].by = tx.by /\ tx.by = 1
  /\ tx.by = 0 => tx.calls = <<>>
  /\ tx.pc = "over" /\ tx.by # 0 => Len(tx.calls) = 1

\* The register calls before the last get that registered an instance of
\* class c.
RegsOf(c) == {i \in 1..registry.at : registry.regs[i].constructor = c}

LatestOf(c) ==
  registry.regs[CHOOSE i \in RegsOf(c) : \A k \in RegsOf(c) : k <= i]

\* C16: every construction of the registry yields the same instance; a
\* get of a class returns the instance most recently registered for that
\* class, and a get of a class no instance of which was ever registered
\* signals InternalError (500).
C16_SingletonLatestWins ==
  /\ \A i, k \in 1..Len(registry.handles) :
       registry.handles[i] = registry.handles[k]
  /\ registry.got.kind # "none" =>
       IF RegsOf(registry.asked) = {}
       THEN /\ registry.got.kind = "error"
            /\ registry.got.statusCode = INTERNAL_SERVER_ERROR
       ELSE /\ registry.got.kind = "ok"
            /\ registry.got.result = LatestOf(registry.asked)

\* A module of the worker has been constructed.
ModuleConstructed ==
  /\ boot.pc # "off"
  /\ \E m \in DOMAIN boot.modules : boot.modules[m] = "processing"

\* The register calls workerMain makes for its configuration.
RegistersDue == (IF boot.database THEN 2 ELSE 0) + Len(boot.factories)

\* C20: the registry is written only during worker bootstrap: once a
\* module instance is constructed, every register call (sequelize,
\* daoHelper, one per export of ./dependency) has completed, and from then
\* on, in particular once a job has been received, no register call
\* happens.
C20_WrittenOnlyDuringBootstrap ==
  /\ [](ModuleConstructed =>
          /\ Len(registry.regs) = RegistersDue
          /\ \A k \in DOMAIN boot.factories : boot.factories[k] = "resolved"
          /\ boot.database =>
               /\ registry.regs[1] = SequelizeObj
               /\ registry.regs[2] = DaoHelperObj)
  /\ [][(ModuleConstructed \/ (boot.pc # "off" /\ boot.received > 0))
          => registry' = registry]_vars

C20_Witness ==
  /\ boot.pc = "modules"
  /\ boot.database
  /\ Len(boot.factories) > 0
  /\ boot.received > 0
  /\ Len(registry.regs) = RegistersDue

\* C21: for every job handed to the process callback done is invoked
\* exactly once: with a result when run() fulfilled, with an error when it
\* rejected, never both and never zero times, also when done(null, result)
\* throws.
C21_DoneExactlyOnce ==
  /\ callback.pc # "off" => Len(callback.calls) <= 1
  /\ callback.pc = "over" =>
       /\ Len(callback.calls) = 1
       /\ callback.calls[1].with =
            (IF callback.out.kind = "ok" THEN "result" ELSE "error")

\* C22: whichever order Guard and Path were applied to a method in, run()
\* executes the body of a method only when every guard given for that
\* method returns true for the request.
C22_GuardedWhicheverOrder ==
  (last.op = "run" /\ last.idx # 0 /\ last.out.bodyRan) =>
     LET key == paths[last.cls][last.bin][last.idx].func.body
     IN  \A i \in 1..Len(descriptors[key].guardFuncs) :
           Pred(descriptors[key].guardFuncs[i], last.data)

\* C23: whatever the configuration and the process, main starts the
\* Dispatcher (masterMain) only if the configuration has a port and the
\* Worker Job Processor (workerMain) only if it has modules.
C23_StartsOnlyWhatIsConfigured ==
  launch.pc = "on" =>
    \A p \in DOMAIN launch.procs :
       /\ "masterMain" \in launch.procs[p].started => launch.port
       /\ "workerMain" \in launch.procs[p].started => launch.modules

====
